---- MODULE Spec2Model ----
(***************************************************************************)
(* GameHub API proxy worker: the handling of one inbound request by the    *)
(* worker's fetch handler (token interception, signature regeneration,     *)
(* path dispatch and the per-endpoint response shaping), and the signer    *)
(* generateSignature as a pure function.                                   *)
(*                                                                         *)
(* Strings are sequences of atoms (opaque chunks of text); the placeholder *)
(* 'fake-token' is one atom, so includes() is membership of that atom and  *)
(* replace() rewrites its first occurrence.                                *)
(***************************************************************************)
EXTENDS Naturals, Integers, Sequences, FiniteSets, TLC

VARIABLES
    pc,                 \* position of the fetch handler
    request,            \* the inbound request
    modifiedRequest,    \* the request used after the interception block
    shouldReplaceToken, \* placeholder detected
    bodyText,           \* body text read so far ('' = EmptyText)
    realToken,          \* resolved token, <<>> when undefined
    calls,              \* collaborators contacted, in order
    upstream,           \* last response a collaborator returned to a handler
    response,           \* the response returned to the client
    bodyReads,          \* number of body reads (text() / json())
    dispatched,         \* the if-chain of handlers was reached
    tokenDataStr,       \* what the token store returned, "unread" before the read
    fault,              \* message of the fault raised, <<>> when none
    paramsA, paramsB,   \* signer inputs   (signer specification)
    signA, signB,       \* signer outputs  (signer specification)
    spc                 \* position of the signer specification

vars == <<pc, request, modifiedRequest, shouldReplaceToken, bodyText, realToken,
          calls, upstream, response, bodyReads, dispatched, tokenDataStr, fault,
          paramsA, paramsB, signA, signB, spc>>

reqVars == <<pc, request, modifiedRequest, shouldReplaceToken, bodyText, realToken,
             calls, upstream, response, bodyReads, dispatched, tokenDataStr, fault>>

signVars == <<paramsA, paramsB, signA, signB, spc>>

-----------------------------------------------------------------------------
(* Bounds *)

MaxFields == 2      \* fields of an inbound JSON object body
MaxParams == 3      \* entries of a parameter map handed to the signer
MaxList == 2        \* items of an upstream game list
MaxItems == 7       \* items of a manifest, cards of a topic

-----------------------------------------------------------------------------
(* Strings *)

Min(a, b) == IF a < b THEN a ELSE b
Max(a, b) == IF a > b THEN a ELSE b

PLACEHOLDER == "fake-token"

Includes(s, a) == \E i \in 1..Len(s) : s[i] = a

FirstIndex(s, a) == CHOOSE i \in 1..Len(s) : s[i] = a /\ \A j \in 1..(i-1) : s[j] # a

\* String.prototype.replace with a string pattern: the first occurrence only
Replace(s, a, r) ==
    IF ~Includes(s, a) THEN s
    ELSE LET i == FirstIndex(s, a)
         IN  SubSeq(s, 1, i-1) \o r \o SubSeq(s, i+1, Len(s))

\* a JSON scalar: a string or a number, s its characters
JStr(a) == [t |-> "str", s |-> <<a>>, n |-> 0]
JNum(n) == [t |-> "num", s |-> <<ToString(n)>>, n |-> n]
JText(s) == [t |-> "str", s |-> s, n |-> 0]

\* template-literal rendering `${v}`: a number renders as its digits
Render(v) == v.s

-----------------------------------------------------------------------------
(* Objects: insertion-ordered maps, a sequence of [k, v] with distinct keys *)

Field(k, v) == [k |-> k, v |-> v]

ObjHas(o, k) == \E i \in 1..Len(o) : o[i].k = k

ObjGet(o, k) == o[CHOOSE i \in 1..Len(o) : o[i].k = k].v

\* o[k] = v : in place when the key exists, appended otherwise
ObjSet(o, k, v) ==
    IF ObjHas(o, k)
    THEN [i \in 1..Len(o) |-> IF o[i].k = k THEN Field(k, v) ELSE o[i]]
    ELSE Append(o, Field(k, v))

\* Object.keys(o): insertion order
ObjectKeys(o) == [i \in 1..Len(o) |-> o[i].k]

DistinctKeys(o) == \A i, j \in 1..Len(o) : o[i].k = o[j].k => i = j

\* code-unit order of the key universe
KeyOrder ==
    <<"app_id", "gpu_device_name", "gpu_system_driver_version", "gpu_vendor", "id", "lang",
      "page", "page_size", "sign", "time", "token", "type">>

KeyRank(k) == CHOOSE i \in 1..Len(KeyOrder) : KeyOrder[i] = k

KeyLess(a, b) == KeyRank(a) < KeyRank(b)

RECURSIVE Insert(_, _)
Insert(sorted, k) ==
    IF sorted = <<>> THEN <<k>>
    ELSE IF KeyLess(k, Head(sorted)) THEN <<k>> \o sorted
    ELSE <<Head(sorted)>> \o Insert(Tail(sorted), k)

RECURSIVE SortFrom(_, _)
SortFrom(ks, acc) ==
    IF ks = <<>> THEN acc ELSE SortFrom(Tail(ks), Insert(acc, Head(ks)))

\* Array.prototype.sort() without comparator
Sort(ks) == SortFrom(ks, <<>>)

NotSign(k) == k # "sign"

RECURSIVE Join(_, _)
Join(parts, sep) ==
    IF parts = <<>> THEN <<>>
    ELSE IF Len(parts) = 1 THEN Head(parts)
    ELSE Head(parts) \o <<sep>> \o Join(Tail(parts), sep)

-----------------------------------------------------------------------------
(* Signer *)

GAMEHUB_SECRET_KEY == "all-egg-shell-y7ZatUDk"

\* md5 of ./md5.js: a digest, modelled as an injective function of its
\* input whose hex letters may come out in upper case
md5(s) == <<"MD5(">> \o s \o <<")">>

toLowerCase(s) == [i \in 1..Len(s) |-> IF s[i] = "MD5(" THEN "md5(" ELSE s[i]]

\* the keys left in insertion order
sortedKeysUnsorted(params) == SelectSeq(ObjectKeys(params), NotSign)

sortedKeys(params) == Sort(SelectSeq(ObjectKeys(params), NotSign))

paramString(params) ==
    LET ks == sortedKeys(params)
    IN  Join([i \in 1..Len(ks) |-> <<ks[i], "=">> \o Render(ObjGet(params, ks[i]))], "&")

signString(params) == paramString(params) \o <<"&", GAMEHUB_SECRET_KEY>>

generateSignature(params) == toLowerCase(md5(signString(params)))

-----------------------------------------------------------------------------
(* Body texts.  kind: "empty" (''), "obj" (a JSON object, fields in textual   *)
(* order), "arr" (a JSON array), "str" (a JSON string literal), "raw" (not    *)
(* JSON).  ph: the text contains the placeholder.  fmt: "client" is the       *)
(* sender's formatting, "compact" what JSON.stringify writes.                 *)

Text(kind, fields, ph, fmt) == [kind |-> kind, fields |-> fields, ph |-> ph, fmt |-> fmt]

EmptyText == Text("empty", <<>>, FALSE, "none")

ObjText(fields, fmt) ==
    Text("obj", fields, \E i \in 1..Len(fields) : Includes(fields[i].v.s, PLACEHOLDER), fmt)

\* bodyText.includes('fake-token')
TextIncludes(text) == text.ph

\* `if (bodyText)`: a non-empty string
Truthy(text) == text.kind # "empty"

\* JSON.parse throws a SyntaxError on these texts
ParseThrows(text) == text.kind \in {"raw", "empty"}

\* JSON.parse of an object text: its fields in textual order
JSONparse(text) == text.fields

\* JSON.stringify of an object: its fields in insertion order
JSONstringify(fields) == ObjText(fields, "compact")

-----------------------------------------------------------------------------
(* Requests *)

Headers(a, t, c) == [Authorization |-> a, token |-> t, ContentType |-> c]

Req(m, p, q, h, b) == [method |-> m, path |-> p, query |-> q, headers |-> h, body |-> b]

KnownPaths ==
    { "/card/getGameDetail", "/search/getGameList", "/card/getNewsList",
      "/card/getNewsGuideDetail", "/card/getIndexList", "/card/more",
      "/simulator/executeScript", "/base/getBaseInfo",
      "/cloud/game/check_user_timer", "/game/getDnsIpPool", "/game/getSteamHost",
      "/card/getGameIcon", "/simulator/v2/getComponentList" }

OtherPath == "/components/box64_manifest"

Paths == KnownPaths \cup {OtherPath}

Methods == {"GET", "POST", "PUT", "OPTIONS"}

AuthValues ==
    { <<>>, <<"Bearer ", PLACEHOLDER>>, <<"Bearer ", "abc">>, <<PLACEHOLDER, ", ", PLACEHOLDER>> }

TokenValues == { <<>>, <<PLACEHOLDER>>, <<PLACEHOLDER, "-x">> }

ContentTypes == { <<>>, <<"application/json">>, <<"text/plain">> }

HeaderSets == { Headers(a, t, c) : a \in AuthValues, t \in TokenValues, c \in ContentTypes }

BodyKeys == {"app_id", "sign", "token"}

BodyValues == { JStr(PLACEHOLDER), JStr("585690") }

BodyFields == { Field(k, v) : k \in BodyKeys, v \in BodyValues }

ObjectsOver(F, n) ==
    UNION { { o \in [1..m -> F] : DistinctKeys(o) } : m \in 0..n }

ObjectBodies == { ObjText(o, "client") : o \in ObjectsOver(BodyFields, MaxFields) }

OtherBodies ==
    { EmptyText,
      Text("arr", <<>>, TRUE, "client"),
      Text("str", <<>>, TRUE, "client"),
      Text("raw", <<>>, TRUE, "client"),
      Text("raw", <<>>, FALSE, "client") }

\* the object bodies a path's handler is exercised with
FewBodies ==
    { ObjText(<<Field("token", JStr(PLACEHOLDER)), Field("app_id", JStr("585690"))>>, "client"),
      ObjText(<<Field("app_id", JStr("585690"))>>, "client") }

\* every body shape reaches the interception block on these two paths; the
\* other paths are exercised with FewBodies and OtherBodies
AllBodyPaths == {"/simulator/executeScript", OtherPath}

\* the page and page_size a paginated handler is asked for
PageValues == -1..4

PageSizeValues == {-1, 0, 3}

\* a numeric field that may be missing from the body
Optional(k, V) == { <<>> } \cup { <<Field(k, JNum(v))>> : v \in V }

PagedBodies(first) ==
    { ObjText(<<first>> \o page \o size, "client") :
        page \in Optional("page", PageValues), size \in Optional("page_size", PageSizeValues) }

\* the device description the app sends to /simulator/executeScript
GpuDevices == { "Adreno 750", "Mali-G715" }

DeviceBody(device, rest) ==
    ObjText(<<Field("gpu_vendor", JStr("Qualcomm")), Field("gpu_device_name", JStr(device)),
              Field("gpu_system_driver_version", JStr("615.0"))>> \o rest, "client")

\* bodies carrying the parameters a handler reads
HandlerBodies(p) ==
    CASE p = "/card/getNewsGuideDetail" ->
           { ObjText(<<Field("id", JNum(7))>>, "client") }
      [] p = "/card/more" ->
           PagedBodies(Field("id", JNum(7)))
           \cup { ObjText(<<Field("id", JNum(9))>>, "client") }
      [] p = "/simulator/v2/getComponentList" ->
           PagedBodies(Field("type", JNum(1)))
           \cup { ObjText(<<Field("type", JNum(9))>>, "client") }
      [] p = "/simulator/executeScript" ->
           { DeviceBody(d, rest) : d \in GpuDevices,
                                   rest \in { <<>>, <<Field("token", JStr(PLACEHOLDER))>> } }
      [] OTHER -> {}

BodiesOf(m, p) ==
    IF m \in {"GET", "OPTIONS"} THEN {EmptyText}
    ELSE IF p \in AllBodyPaths THEN ObjectBodies \cup OtherBodies \cup HandlerBodies(p)
    ELSE FewBodies \cup OtherBodies \cup HandlerBodies(p)

\* the query string: read by GET /card/getGameDetail only
Queries ==
    { <<>>,
      <<Field("app_id", <<"8870">>)>>,
      <<Field("app_id", <<>>)>>,
      <<Field("lang", <<"en">>), Field("app_id", <<"8870">>)>>,
      <<Field("app_id", <<"8870">>), Field("app_id", <<"1">>), Field("lang", <<"en">>)>> }

QueriesOf(m, p) ==
    IF m = "GET" /\ p = "/card/getGameDetail" THEN Queries ELSE {<<>>}

Requests ==
    UNION { UNION { { Req(m, p, q, h, b) : q \in QueriesOf(m, p), h \in HeaderSets, b \in BodiesOf(m, p) }
                    : p \in Paths } : m \in Methods }

-----------------------------------------------------------------------------
(* Responses and collaborators *)

NoResponse == [status |-> 0, kind |-> "none", body |-> <<>>]

NoUpstream == [ok |-> FALSE, status |-> 0, kind |-> "none", body |-> <<>>]

Envelope(code, msg) == [code |-> code, msg |-> msg]

Resp(status, kind, body) == [status |-> status, kind |-> kind, body |-> body]

\* the outer catch answering without a status
CaughtResponseNoStatus(msg) == Resp(200, "caught", Envelope(500, <<"Error: ">> \o msg))

\* the outer catch: a 500 envelope carrying the fault message
CaughtResponse(msg) == Resp(500, "caught", Envelope(500, <<"Error: ">> \o msg))

Call(to, method, url, headers, body) ==
    [to |-> to, method |-> method, url |-> url, headers |-> headers, body |-> body]

NoHeaders == Headers(<<>>, <<>>, <<>>)

REAL_TOKEN == <<"f589a94e">>

\* the outer catch answering with a fixed message
ThrowGeneric(m) ==
    /\ response' = CaughtResponse(<<"Internal server error">>)
    /\ fault' = <<m>>
    /\ pc' = "done"

\* a fault that reaches the outer catch
Throw(m) ==
    /\ response' = CaughtResponse(<<m>>)
    /\ fault' = <<m>>
    /\ pc' = "done"

\* the message of the SyntaxError response.json() rejects with is the
\* runtime's: it may or may not quote the start of the text
SyntaxErrors(text) ==
    { <<"SyntaxError">>, <<"Unexpected token, ">> \o text \o <<" is not valid JSON">> }

\* `await response.json()` on a body that is not JSON, outside any inner try
ThrowParse(text) ==
    \E msg \in SyntaxErrors(text) :
        /\ response' = CaughtResponse(msg)
        /\ fault' = msg
        /\ pc' = "done"

\* a fault caught by a handler's own catch block, which answers resp
Catch(m, resp) ==
    /\ response' = resp
    /\ fault' = <<m>>
    /\ pc' = "done"

-----------------------------------------------------------------------------
(* fetch: preflight and token interception *)

Init ==
    /\ request \in Requests
    /\ pc = "start"
    /\ modifiedRequest = request
    /\ shouldReplaceToken = FALSE
    /\ bodyText = EmptyText
    /\ realToken = <<>>
    /\ calls = <<>>
    /\ upstream = NoUpstream
    /\ response = NoResponse
    /\ bodyReads = 0
    /\ dispatched = FALSE
    /\ tokenDataStr = "unread"
    /\ fault = <<>>
    /\ paramsA = <<>> /\ paramsB = <<>> /\ signA = <<>> /\ signB = <<>>
    /\ spc = "off"

Preflight ==
    /\ pc = "start"
    /\ request.method = "OPTIONS"
    /\ response' = Resp(200, "preflight", <<>>)
    /\ pc' = "done"
    /\ UNCHANGED <<request, modifiedRequest, shouldReplaceToken, bodyText, realToken,
                   calls, upstream, bodyReads, dispatched, tokenDataStr, fault>>
    /\ UNCHANGED signVars

\* the token header tested with includes() instead of ===
HeaderHasPlaceholderLoose(h) ==
    Includes(h.Authorization, PLACEHOLDER) \/ Includes(h.token, PLACEHOLDER)

HeaderHasPlaceholder(h) ==
    Includes(h.Authorization, PLACEHOLDER) \/ h.token = <<PLACEHOLDER>>

IsJsonPost(r) ==
    r.method = "POST" /\ Includes(r.headers.ContentType, "application/json")

Detect ==
    /\ pc = "start"
    /\ request.method # "OPTIONS"
    /\ LET read == IsJsonPost(request)
           text == IF read THEN request.body ELSE EmptyText
           should == HeaderHasPlaceholder(request.headers) \/ (read /\ TextIncludes(text))
       IN  /\ bodyText' = text
           /\ bodyReads' = IF read THEN bodyReads + 1 ELSE bodyReads
           /\ shouldReplaceToken' = should
           /\ pc' = IF should THEN "kv" ELSE "dispatch"
    /\ UNCHANGED <<request, modifiedRequest, realToken, calls, upstream, response, dispatched,
                   tokenDataStr, fault>>
    /\ UNCHANGED signVars

\* what env.TOKEN_STORE.get('gamehub_token') gives: null, a record with a token,
\* a record without one, a string JSON.parse rejects, or a rejected promise
KvOutcomes == {"absent", "token", "notoken", "unparsable", "fault"}

\* the fallback taken for a record without a token as well
TokenDataMissingOrEmpty(out) == out \in {"absent", "notoken"}

\* `if (tokenDataStr)` fails: the store holds nothing under the key
TokenDataMissing(out) == out = "absent"

KvGet ==
    /\ pc = "kv"
    /\ calls' = Append(calls, Call("TOKEN_STORE", "get", <<"gamehub_token">>, NoHeaders, EmptyText))
    /\ \E out \in KvOutcomes :
         /\ tokenDataStr' = out
         /\ CASE out = "fault"      -> Throw("KV") /\ UNCHANGED realToken
              [] out = "unparsable" -> Throw("SyntaxError") /\ UNCHANGED realToken
              [] TokenDataMissing(out) -> pc' = "issuer" /\ UNCHANGED <<realToken, response, fault>>
              [] OTHER ->
                   /\ pc' = "rewrite"
                   /\ realToken' = IF out = "token" THEN REAL_TOKEN ELSE <<>>
                   /\ UNCHANGED <<response, fault>>
    /\ UNCHANGED <<request, modifiedRequest, shouldReplaceToken, bodyText, upstream, bodyReads, dispatched>>
    /\ UNCHANGED signVars

\* what fetch(TOKEN_REFRESHER_URL/token) gives: a rejected promise, a non-OK
\* status, or an OK status whose body holds a token, none, or is not JSON
IssuerOutcomes == {"fault", "nonok", "token", "notoken", "unparsable"}

IssuerFetch ==
    /\ pc = "issuer"
    /\ calls' = Append(calls, Call("TOKEN_REFRESHER", "GET", <<"/token">>, NoHeaders, EmptyText))
    /\ \E out \in IssuerOutcomes :
         CASE out = "fault"      -> Throw("fetch failed") /\ UNCHANGED realToken
           [] out = "nonok"      -> pc' = "rewrite" /\ realToken' = <<>> /\ UNCHANGED <<response, fault>>
           [] out = "token"      -> pc' = "rewrite" /\ realToken' = REAL_TOKEN /\ UNCHANGED <<response, fault>>
           [] out = "notoken"    -> pc' = "rewrite" /\ realToken' = <<>> /\ UNCHANGED <<response, fault>>
           [] out = "unparsable" -> Throw("SyntaxError") /\ UNCHANGED realToken
    /\ UNCHANGED <<request, modifiedRequest, shouldReplaceToken, bodyText, upstream, bodyReads,
                   dispatched, tokenDataStr>>
    /\ UNCHANGED signVars

\* lines 121-129: the headers of the rewritten request
newHeaders(h, token) ==
    [h EXCEPT !.Authorization = IF Includes(@, PLACEHOLDER) THEN Replace(@, PLACEHOLDER, token) ELSE @,
              !.token = IF @ = <<PLACEHOLDER>> THEN token ELSE @]

\* the signature taken before the token is overwritten
rewrittenFieldsStaleSign(fields, token) ==
    ObjSet(ObjSet(fields, "token", JText(token)), "sign", JText(generateSignature(fields)))

\* lines 134-141: the body with token and sign overwritten
rewrittenFields(fields, token) ==
    LET withToken == ObjSet(fields, "token", JText(token))
    IN  ObjSet(withToken, "sign", JText(generateSignature(withToken)))

\* lines 132-160: the request built once a token was resolved; the last
\* branch passes no body to the Request constructor
rewrittenRequest(r, text, token) ==
    IF Truthy(text) /\ TextIncludes(text)
    THEN [r EXCEPT !.headers = newHeaders(r.headers, token),
                   !.body = IF text.kind = "obj"
                            THEN JSONstringify(rewrittenFields(JSONparse(text), token))
                            ELSE Text(text.kind, text.fields, text.ph, "compact")]
    ELSE IF Truthy(text)
    THEN [r EXCEPT !.headers = newHeaders(r.headers, token), !.body = text]
    ELSE [r EXCEPT !.headers = newHeaders(r.headers, token), !.body = EmptyText]

\* JSON.parse(bodyText) throws, or `bodyJson.token = ...` throws on a primitive
RewriteThrows(text) ==
    Truthy(text) /\ TextIncludes(text) /\ (ParseThrows(text) \/ text.kind = "str")

Rewrite ==
    /\ pc = "rewrite"
    /\ IF realToken = <<>>
       THEN /\ pc' = "dispatch"
            /\ UNCHANGED <<modifiedRequest, bodyText, response, fault>>
       ELSE IF RewriteThrows(bodyText)
       THEN /\ Throw(IF bodyText.kind = "str" THEN "TypeError" ELSE "SyntaxError")
            /\ UNCHANGED <<modifiedRequest, bodyText>>
       ELSE /\ modifiedRequest' = rewrittenRequest(request, bodyText, realToken)
            /\ bodyText' = modifiedRequest'.body
            /\ pc' = "dispatch"
            /\ UNCHANGED <<response, fault>>
    /\ UNCHANGED <<request, shouldReplaceToken, realToken, calls, upstream, bodyReads, dispatched,
                   tokenDataStr>>
    /\ UNCHANGED signVars

-----------------------------------------------------------------------------
(* Dispatch *)

\* the if-chain of lines 173-728: the handler a path and method select
Route(path, method) ==
    CASE path = "/card/getGameDetail" -> "getGameDetail"
      [] path = "/search/getGameList" /\ method = "POST" -> "getGameList"
      [] path = "/card/getNewsList" /\ method = "POST" -> "getNewsList"
      [] path = "/card/getNewsGuideDetail" /\ method = "POST" -> "getNewsGuideDetail"
      [] path = "/card/getIndexList" /\ method \in {"POST", "GET"} -> "getIndexList"
      [] path = "/card/more" /\ method = "POST" -> "more"
      [] path = "/simulator/executeScript" /\ method = "POST" -> "executeScript"
      [] path = "/base/getBaseInfo" /\ method = "POST" -> "getBaseInfo"
      [] path = "/cloud/game/check_user_timer" /\ method = "POST" -> "check_user_timer"
      [] path = "/game/getDnsIpPool" /\ method = "POST" -> "getDnsIpPool"
      [] path = "/game/getSteamHost" /\ method = "GET" -> "getSteamHost"
      [] path = "/card/getGameIcon" /\ method = "POST" -> "getGameIcon"
      [] path = "/simulator/v2/getComponentList" /\ method = "POST" -> "getComponentList"
      [] OTHER -> "default"

At(handler) ==
    /\ pc = "dispatch"
    /\ Route(modifiedRequest.path, modifiedRequest.method) = handler

Finish(resp) ==
    /\ response' = resp
    /\ pc' = "done"
    /\ UNCHANGED fault

\* `if (!bodyText) bodyText = await request.text()`
ReuseOrReadBody ==
    /\ bodyText' = IF Truthy(bodyText) THEN bodyText ELSE modifiedRequest.body
    /\ bodyReads' = IF Truthy(bodyText) THEN bodyReads ELSE bodyReads + 1

Frame ==
    /\ dispatched' = TRUE
    /\ UNCHANGED <<request, modifiedRequest, shouldReplaceToken, realToken, tokenDataStr>>
    /\ UNCHANGED signVars

\* what a collaborator answers: the fetch promise rejects ("fault"), or a
\* response with a status and a body that is JSON ("json", "null"), not JSON
\* ("raw") or plain text ("text")
UpResp(status, kind, body) ==
    [ok |-> status \in 200..299, status |-> status, kind |-> kind, body |-> body]

\* a body that is not JSON
HTML == <<"<html>">>

UpFault == [ok |-> FALSE, status |-> 0, kind |-> "fault", body |-> <<>>]

GAME_API == "https://landscape-api.vgabc.com"
GITHUB_BASE == "https://raw.githubusercontent.com/gamehublite/gamehub_api/main"
NEWS_AGGREGATOR_URL == "https://gamehub-news-aggregator.secureflex.workers.dev"

-----------------------------------------------------------------------------
(* /card/getGameDetail *)

DetailData ==
    { <<Field("name", JStr("Portal"))>>,
      <<Field("recommend_game", JStr("r")), Field("name", JStr("Portal")),
        Field("card_line_data", JStr("c"))>> }

\* an upstream envelope: code, msg and data (null when hasData is FALSE)
DetailPayload(code, msg, hasData, data) ==
    [code |-> code, msg |-> msg, hasData |-> hasData, data |-> data]

DetailError == DetailPayload(401, <<"token invalid">>, FALSE, <<>>)

DetailPayloads ==
    { DetailPayload(0, <<>>, FALSE, <<>>), DetailError }
    \cup { DetailPayload(0, <<"ok">>, TRUE, d) : d \in DetailData }

DetailResponses ==
    { UpFault, UpResp(200, "raw", HTML), UpResp(500, "raw", HTML), UpResp(200, "null", <<>>),
      UpResp(500, "json", DetailError) }
    \cup { UpResp(200, "json", d) : d \in DetailPayloads }

NotAppId(f) == f.k # "app_id"

RECURSIVE SetAll(_, _)
SetAll(o, fs) ==
    IF fs = <<>> THEN o ELSE SetAll(ObjSet(o, Head(fs).k, JText(Head(fs).v)), Tail(fs))

\* url.searchParams.get: the first value of the name, <<>> when there is none
SearchParam(q, k) ==
    IF ObjHas(q, k)
    THEN q[CHOOSE i \in 1..Len(q) : q[i].k = k /\ \A j \in 1..(i-1) : q[j].k # k].v
    ELSE <<>>

\* lines 194-205: app_id first, then every other query parameter
bodyParams(q) == SetAll(<<Field("app_id", JText(SearchParam(q, "app_id")))>>, SelectSeq(q, NotAppId))

forwardHeaders(h) == [h EXCEPT !.ContentType = <<"application/json">>]

\* card_line_data left in place
NotRecommend(f) == f.k # "recommend_game"

NotStripped(f) == f.k \notin {"recommend_game", "card_line_data"}

\* lines 262-265
stripDetail(p) == IF p.hasData THEN [p EXCEPT !.data = SelectSeq(@, NotStripped)] ELSE p

\* the text cut to nothing
substringNone(text, from, n) == <<>>

\* String.prototype.substring(0, n) of a text shorter than n
substring(text, from, n) == SubSeq(text, from + 1, Min(n, Len(text)))

GetGameDetail ==
    /\ At("getGameDetail")
    /\ Frame
    /\ LET m == modifiedRequest.method
           appId == SearchParam(modifiedRequest.query, "app_id")
       IN
       IF m = "GET" /\ appId = <<>>
       THEN /\ Finish(Resp(400, "envelope", Envelope(400, <<"Missing app_id parameter">>)))
            /\ UNCHANGED <<bodyText, bodyReads, calls, upstream>>
       ELSE IF m \notin {"GET", "POST"}
       THEN /\ Finish(Resp(405, "envelope", Envelope(405, <<"Method not allowed">>)))
            /\ UNCHANGED <<bodyText, bodyReads, calls, upstream>>
       ELSE /\ IF m = "POST" THEN ReuseOrReadBody ELSE UNCHANGED <<bodyText, bodyReads>>
            /\ LET requestBody == IF m = "GET"
                                  THEN JSONstringify(bodyParams(modifiedRequest.query))
                                  ELSE bodyText'
               IN  calls' = Append(calls, Call("GAME_API", "POST", <<GAME_API, "/card/getGameDetail">>,
                                               forwardHeaders(modifiedRequest.headers), requestBody))
            /\ \E up \in DetailResponses :
                 /\ upstream' = up
                 /\ CASE up.kind = "fault" -> Throw("fetch failed")
                      [] up.kind = "raw" ->
                           Catch("SyntaxError",
                                 Resp(500, "envelope",
                                      Envelope(500, <<"Chinese server returned invalid response: ">>
                                                       \o substring(up.body, 0, 100))))
                      [] up.kind = "null" -> Throw("TypeError")
                      [] OTHER -> Finish(Resp(200, "payload", stripDetail(up.body)))

-----------------------------------------------------------------------------
(* /search/getGameList *)

SteamIds == { <<>>, <<"0">>, <<"730">> }

Game(i, sid) == [id |-> i, steam_appid |-> sid]

GameLists ==
    UNION { { [i \in 1..n |-> Game(i, f[i])] : f \in [1..n -> SteamIds] } : n \in 0..MaxList }

Count(g, c) == [classify_group_id |-> g, count |-> c]

GameId(g) == [steam_app_id |-> g.steam_appid, game_id |-> g.id]

\* an upstream search payload: data.list with the counts and the id index
\* the upstream derived from it, each of the two possibly missing
SearchPayloads ==
    { [hasData |-> FALSE, hasList |-> FALSE, list |-> <<>>, hasTotal |-> FALSE, total |-> <<>>,
       hasIds |-> FALSE, all_game_ids |-> <<>>],
      [hasData |-> TRUE, hasList |-> FALSE, list |-> <<>>, hasTotal |-> TRUE, total |-> <<Count(0, 0)>>,
       hasIds |-> FALSE, all_game_ids |-> <<>>] }
    \cup { [hasData |-> TRUE, hasList |-> TRUE, list |-> l,
            hasTotal |-> t, total |-> IF t THEN <<Count(0, Len(l)), Count(2, 0)>> ELSE <<>>,
            hasIds |-> g, all_game_ids |-> IF g THEN [i \in 1..Len(l) |-> GameId(l[i])] ELSE <<>>]
           : l \in GameLists, t \in BOOLEAN, g \in BOOLEAN }

SearchResponses ==
    { UpFault, UpResp(200, "raw", HTML), UpResp(502, "raw", HTML), UpResp(200, "null", <<>>) }
    \cup { UpResp(500, "json", d) : d \in { q \in SearchPayloads : ~q.hasData } }
    \cup { UpResp(200, "json", d) : d \in SearchPayloads }

\* the filter without its test for "0"
KeepNonEmpty(game) == game.steam_appid # <<>>

\* line 298
IsSteamGame(game) ==
    game.steam_appid # <<>> /\ game.steam_appid # <<"0">>

\* lines 293-321
filterSearch(p) ==
    IF p.hasData /\ p.hasList
    THEN LET list == SelectSeq(p.list, IsSteamGame)
         IN  [p EXCEPT !.list = list,
                       !.total = IF p.hasTotal THEN <<Count(0, Len(list))>> ELSE @,
                       !.all_game_ids = IF p.hasIds THEN [i \in 1..Len(list) |-> GameId(list[i])] ELSE @]
    ELSE p

GetGameList ==
    /\ At("getGameList")
    /\ Frame
    /\ ReuseOrReadBody
    /\ calls' = Append(calls, Call("GAME_API", "POST", <<GAME_API, "/search/getGameList">>,
                                   modifiedRequest.headers, bodyText'))
    /\ \E up \in SearchResponses :
         /\ upstream' = up
         /\ CASE up.kind = "fault" -> Throw("fetch failed")
              [] up.kind = "raw" -> ThrowParse(up.body)
              [] up.kind = "null" -> Throw("TypeError")
              [] OTHER -> Finish(Resp(200, "payload", filterSearch(up.body)))

-----------------------------------------------------------------------------
(* the default proxy *)

StaticResponses ==
    { UpFault, UpResp(200, "text", <<"file">>), UpResp(404, "text", <<"404: Not Found">>) }

DefaultProxy ==
    /\ At("default")
    /\ Frame
    /\ calls' = Append(calls, Call("GITHUB", "GET", <<GITHUB_BASE, modifiedRequest.path>>,
                                   NoHeaders, EmptyText))
    /\ \E up \in StaticResponses :
         /\ upstream' = up
         /\ IF up.kind = "fault" THEN Throw("fetch failed")
            ELSE Finish(Resp(up.status, "stream", up.body))
    /\ UNCHANGED <<bodyText, bodyReads>>

-----------------------------------------------------------------------------
(* request.json() and the parameters handlers read from it *)

\* request.json() rejects when the body is not JSON
JsonThrows(text) == ParseThrows(text)

\* the fields of the parsed body; an array or a string has none of the names read
BodyObject(text) == IF text.kind = "obj" THEN JSONparse(text) ELSE <<>>

\* truthiness of a JSON scalar
TruthyValue(v) == IF v.t = "num" THEN v.n # 0 ELSE v.s # <<>>

Undefined == [t |-> "undefined", s |-> <<>>, n |-> 0]

\* body.k, undefined when missing
Param(o, k) == IF ObjHas(o, k) THEN ObjGet(o, k) ELSE Undefined

\* body.k || d
ParamOr(o, k, d) ==
    IF Param(o, k).t # "undefined" /\ TruthyValue(Param(o, k)) THEN Param(o, k) ELSE JNum(d)

\* the slice with its end index included
SliceInclusive(list, start, end) ==
    LET len == Len(list)
        from == IF start < 0 THEN Max(len + start, 0) ELSE Min(start, len)
        to == IF end < 0 THEN Max(len + end + 1, 0) ELSE Min(end + 1, len)
    IN  IF from < to THEN SubSeq(list, from + 1, to) ELSE <<>>

\* Array.prototype.slice(start, end)
Slice(list, start, end) ==
    LET len == Len(list)
        from == IF start < 0 THEN Max(len + start, 0) ELSE Min(start, len)
        to == IF end < 0 THEN Max(len + end, 0) ELSE Min(end, len)
    IN  IF from < to THEN SubSeq(list, from + 1, to) ELSE <<>>

-----------------------------------------------------------------------------
(* /card/getNewsList and /card/getNewsGuideDetail *)

NewsResponses ==
    { UpFault, UpResp(200, "json", <<"news">>), UpResp(200, "raw", HTML),
      UpResp(500, "raw", HTML), UpResp(404, "json", <<"none">>) }

GetNewsList ==
    /\ At("getNewsList")
    /\ Frame
    /\ bodyReads' = bodyReads + 1
    /\ UNCHANGED bodyText
    /\ IF JsonThrows(modifiedRequest.body)
       THEN Throw("SyntaxError") /\ UNCHANGED <<calls, upstream>>
       ELSE LET body == BodyObject(modifiedRequest.body)
                page == ParamOr(body, "page", 1)
                pageSize == ParamOr(body, "page_size", 4)
            IN  /\ calls' = Append(calls, Call("NEWS", "GET",
                                 <<NEWS_AGGREGATOR_URL, "/api/news/list?page=">> \o Render(page)
                                    \o <<"&page_size=">> \o Render(pageSize),
                                 NoHeaders, EmptyText))
                /\ \E up \in NewsResponses :
                     /\ upstream' = up
                     /\ CASE up.kind = "fault" -> Throw("fetch failed")
                          [] ~up.ok -> Finish(Resp(200, "envelope", Envelope(500, <<"Failed to fetch news">>)))
                          [] up.kind = "raw" -> ThrowParse(up.body)
                          [] OTHER -> Finish(Resp(200, "payload", up.body))

GetNewsGuideDetail ==
    /\ At("getNewsGuideDetail")
    /\ Frame
    /\ bodyReads' = bodyReads + 1
    /\ UNCHANGED bodyText
    /\ IF JsonThrows(modifiedRequest.body)
       THEN Throw("SyntaxError") /\ UNCHANGED <<calls, upstream>>
       ELSE LET newsId == Param(BodyObject(modifiedRequest.body), "id")
            IN  IF ~TruthyValue(newsId)
                THEN /\ Finish(Resp(400, "envelope", Envelope(400, <<"Missing id parameter">>)))
                     /\ UNCHANGED <<calls, upstream>>
                ELSE /\ calls' = Append(calls, Call("NEWS", "GET",
                                      <<NEWS_AGGREGATOR_URL, "/api/news/detail/">> \o Render(newsId),
                                      NoHeaders, EmptyText))
                     /\ \E up \in NewsResponses :
                          /\ upstream' = up
                          /\ CASE up.kind = "fault" -> Throw("fetch failed")
                               [] ~up.ok -> Finish(Resp(404, "envelope", Envelope(404, <<"News not found">>)))
                               [] up.kind = "raw" -> ThrowParse(up.body)
                               [] OTHER -> Finish(Resp(200, "payload", up.body))

-----------------------------------------------------------------------------
(* /card/getIndexList and /card/more: the free-games store *)

Topic(id, n, cards) == [id |-> id, display_card_num |-> n, card_list |-> cards]

\* n items, named by their 1-based position
Items(n) == [i \in 1..n |-> i]

FreeGamesData == << Topic(JNum(7), 2, Items(MaxItems)), Topic(JNum(8), 6, Items(1)) >>

\* what env.FREE_GAMES_KV.get('free_games_data') gives
FreeGamesOutcomes ==
    { UpFault, UpResp(200, "null", <<>>), UpResp(200, "raw", HTML), UpResp(200, "json", FreeGamesData) }

FreeGamesCall == Call("FREE_GAMES_KV", "get", <<"free_games_data">>, NoHeaders, EmptyText)

InternalError == Resp(500, "envelope", Envelope(500, <<"Internal server error">>))

\* lines 435-438
initialCards(topics) ==
    [i \in 1..Len(topics) |->
        [topics[i] EXCEPT !.card_list = Slice(@, 0, topics[i].display_card_num)]]

GetIndexList ==
    /\ At("getIndexList")
    /\ Frame
    /\ UNCHANGED <<bodyText, bodyReads>>
    /\ calls' = Append(calls, FreeGamesCall)
    /\ \E kv \in FreeGamesOutcomes :
         /\ upstream' = kv
         /\ CASE kv.kind = "fault" -> Catch("KV", InternalError)
              [] kv.kind = "null" ->
                   Finish(Resp(200, "envelope",
                               Envelope(201, <<"No free games available at the moment, please try again later">>)))
              [] kv.kind = "raw" -> Catch("SyntaxError", InternalError)
              [] OTHER -> Finish(Resp(200, "payload", initialCards(kv.body)))

HasTopic(topics, id) == \E i \in 1..Len(topics) : topics[i].id = id

\* Array.prototype.find: the first topic with that id
FindTopic(topics, id) ==
    topics[CHOOSE i \in 1..Len(topics) : topics[i].id = id /\ \A j \in 1..(i-1) : topics[j].id # id]

\* lines 514-533
morePage(topic, page, pageSize) ==
    LET startIndex == (page.n - 1) * pageSize.n
        endIndex == startIndex + pageSize.n
    IN  [id |-> topic.id, page |-> page, page_size |-> pageSize,
         card_list |-> Slice(topic.card_list, startIndex, endIndex)]

CardMore ==
    /\ At("more")
    /\ Frame
    /\ bodyReads' = bodyReads + 1
    /\ UNCHANGED bodyText
    /\ IF JsonThrows(modifiedRequest.body)
       THEN Catch("SyntaxError", InternalError) /\ UNCHANGED <<calls, upstream>>
       ELSE LET body == BodyObject(modifiedRequest.body)
                topicId == Param(body, "id")
                page == ParamOr(body, "page", 1)
                pageSize == ParamOr(body, "page_size", 30)
            IN  IF ~TruthyValue(topicId)
                THEN /\ Finish(Resp(400, "envelope", Envelope(400, <<"Missing topic ID">>)))
                     /\ UNCHANGED <<calls, upstream>>
                ELSE /\ calls' = Append(calls, FreeGamesCall)
                     /\ \E kv \in FreeGamesOutcomes :
                          /\ upstream' = kv
                          /\ CASE kv.kind = "fault" -> Catch("KV", InternalError)
                               [] kv.kind = "null" ->
                                    Finish(Resp(200, "envelope", Envelope(201, <<"No data available">>)))
                               [] kv.kind = "raw" -> Catch("SyntaxError", InternalError)
                               [] ~HasTopic(kv.body, topicId) ->
                                    Finish(Resp(404, "envelope", Envelope(404, <<"Topic not found">>)))
                               [] OTHER ->
                                    Finish(Resp(200, "payload",
                                                morePage(FindTopic(kv.body, topicId), page, pageSize)))

-----------------------------------------------------------------------------
(* pass-through proxies to the game-data API *)

ApiResponses ==
    { UpFault, UpResp(200, "json", <<"result">>), UpResp(200, "raw", HTML),
      UpResp(502, "raw", HTML), UpResp(500, "json", <<"error">>) }

ProxyToGameApi(handler, path) ==
    /\ At(handler)
    /\ Frame
    /\ ReuseOrReadBody
    /\ calls' = Append(calls, Call("GAME_API", "POST", <<GAME_API, path>>,
                                   modifiedRequest.headers, bodyText'))
    /\ \E up \in ApiResponses :
         /\ upstream' = up
         /\ CASE up.kind = "fault" -> Throw("fetch failed")
              [] up.kind = "raw" -> ThrowParse(up.body)
              [] OTHER -> Finish(Resp(200, "payload", up.body))

ExecuteScript == ProxyToGameApi("executeScript", "/simulator/executeScript")

CheckUserTimer == ProxyToGameApi("check_user_timer", "/cloud/game/check_user_timer")

-----------------------------------------------------------------------------
(* static files served from the manifest host *)

FileResponses ==
    { UpFault, UpResp(200, "json", <<"file">>), UpResp(200, "raw", HTML),
      UpResp(404, "text", <<"404: Not Found">>) }

StaticJson(handler, file, failure) ==
    /\ At(handler)
    /\ Frame
    /\ UNCHANGED <<bodyText, bodyReads>>
    /\ calls' = Append(calls, Call("GITHUB", "GET", <<GITHUB_BASE, file>>, NoHeaders, EmptyText))
    /\ \E up \in FileResponses :
         /\ upstream' = up
         /\ CASE up.kind = "fault" -> Throw("fetch failed")
              [] ~up.ok -> Finish(Resp(500, "envelope", Envelope(500, <<failure>>)))
              [] up.kind = "raw" -> ThrowParse(up.body)
              [] OTHER -> Finish(Resp(200, "payload", up.body))

GetBaseInfo == StaticJson("getBaseInfo", "/base/getBaseInfo", "Failed to fetch base info")

GetDnsIpPool == StaticJson("getDnsIpPool", "/game/getDnsIpPool", "Failed to fetch DNS pool")

GetSteamHost ==
    /\ At("getSteamHost")
    /\ Frame
    /\ UNCHANGED <<bodyText, bodyReads>>
    /\ calls' = Append(calls, Call("GITHUB", "GET", <<GITHUB_BASE, "/game/getSteamHost/index">>,
                                   NoHeaders, EmptyText))
    /\ \E up \in StaticResponses :
         /\ upstream' = up
         /\ CASE up.kind = "fault" -> Throw("fetch failed")
              [] ~up.ok -> Finish(Resp(500, "envelope", Envelope(500, <<"Failed to fetch Steam hosts">>)))
              [] OTHER -> Finish(Resp(200, "text", up.body))

GetGameIcon ==
    /\ At("getGameIcon")
    /\ Frame
    /\ Finish(Resp(200, "envelope", Envelope(200, <<>>)))
    /\ UNCHANGED <<bodyText, bodyReads, calls, upstream>>

-----------------------------------------------------------------------------
(* /simulator/v2/getComponentList *)

TYPE_TO_MANIFEST ==
    [n \in 1..7 |->
        <<"/components/box64_manifest", "/components/drivers_manifest",
          "/components/dxvk_manifest", "/components/vkd3d_manifest",
          "/components/games_manifest", "/components/libraries_manifest",
          "/components/steam_manifest">>[n]]

\* `!type || !TYPE_TO_MANIFEST[type]`
InvalidType(type) == ~TruthyValue(type) \/ type.n \notin DOMAIN TYPE_TO_MANIFEST

Manifest(hasData, name, items, total) ==
    [hasData |-> hasData, name |-> name, items |-> items, total |-> total]

\* a manifest: data.components or data.list (name), data.total 0 when missing
ManifestPayloads ==
    { Manifest(FALSE, "none", <<>>, 0),
      Manifest(TRUE, "none", <<>>, 0),
      Manifest(TRUE, "components", Items(MaxItems), 0),
      Manifest(TRUE, "list", Items(MaxItems), MaxItems),
      Manifest(TRUE, "list", Items(MaxItems), MaxItems + 1),
      Manifest(TRUE, "components", <<>>, 0) }

ManifestResponses ==
    { UpFault, UpResp(404, "text", <<"404: Not Found">>), UpResp(200, "raw", HTML) }
    \cup { UpResp(200, "json", m) : m \in ManifestPayloads }

\* lines 701-721: the list renamed and cut to the page
componentPage(m, page, pageSize) ==
    IF m.hasData /\ m.name \in {"components", "list"}
    THEN LET startIndex == (page.n - 1) * pageSize.n
             endIndex == startIndex + pageSize.n
         IN  [hasData |-> TRUE, name |-> "list", items |-> Slice(m.items, startIndex, endIndex),
              total |-> IF m.total # 0 THEN m.total ELSE Len(m.items),
              page |-> page, pageSize |-> pageSize]
    ELSE [hasData |-> m.hasData, name |-> m.name, items |-> m.items, total |-> m.total,
          page |-> Undefined, pageSize |-> Undefined]

GetComponentList ==
    /\ At("getComponentList")
    /\ Frame
    /\ bodyReads' = bodyReads + 1
    /\ UNCHANGED bodyText
    /\ IF JsonThrows(modifiedRequest.body)
       THEN Throw("SyntaxError") /\ UNCHANGED <<calls, upstream>>
       ELSE LET body == BodyObject(modifiedRequest.body)
                type == Param(body, "type")
                page == ParamOr(body, "page", 1)
                pageSize == ParamOr(body, "page_size", 10)
            IN  IF InvalidType(type)
                THEN /\ Finish(Resp(400, "envelope", Envelope(400, <<"Invalid type parameter">>)))
                     /\ UNCHANGED <<calls, upstream>>
                ELSE /\ calls' = Append(calls, Call("GITHUB", "GET",
                                      <<GITHUB_BASE, TYPE_TO_MANIFEST[type.n]>>, NoHeaders, EmptyText))
                     /\ \E up \in ManifestResponses :
                          /\ upstream' = up
                          /\ CASE up.kind = "fault" -> Throw("fetch failed")
                               [] ~up.ok -> Finish(Resp(500, "envelope", Envelope(500, <<"Failed to fetch manifest">>)))
                               [] up.kind = "raw" -> ThrowParse(up.body)
                               [] OTHER -> Finish(Resp(200, "payload", componentPage(up.body, page, pageSize)))

-----------------------------------------------------------------------------
(* The fetch handler *)

Next ==
    \/ Preflight
    \/ Detect
    \/ KvGet
    \/ IssuerFetch
    \/ Rewrite
    \/ GetGameDetail
    \/ GetGameList
    \/ GetNewsList
    \/ GetNewsGuideDetail
    \/ GetIndexList
    \/ CardMore
    \/ ExecuteScript
    \/ GetBaseInfo
    \/ CheckUserTimer
    \/ GetDnsIpPool
    \/ GetSteamHost
    \/ GetGameIcon
    \/ GetComponentList
    \/ DefaultProxy

Spec == Init /\ [][Next]_vars

-----------------------------------------------------------------------------
(* The signer as a pure function: two parameter maps are drawn and signed *)

ParamKeys == {"app_id", "sign", "time", "token"}

ParamValues == { JStr("585690"), JNum(7) }

ParamFields == { Field(k, v) : k \in ParamKeys, v \in ParamValues }

ParamMaps == ObjectsOver(ParamFields, MaxParams)

IdleRequest == Req("GET", OtherPath, <<>>, NoHeaders, EmptyText)

InitSign ==
    /\ paramsA \in ParamMaps
    /\ paramsB \in ParamMaps
    /\ signA = <<>> /\ signB = <<>>
    /\ spc = "input"
    /\ pc = "off"
    /\ request = IdleRequest
    /\ modifiedRequest = IdleRequest
    /\ shouldReplaceToken = FALSE
    /\ bodyText = EmptyText
    /\ realToken = <<>>
    /\ calls = <<>>
    /\ upstream = NoUpstream
    /\ response = NoResponse
    /\ bodyReads = 0
    /\ dispatched = FALSE
    /\ tokenDataStr = "unread"
    /\ fault = <<>>

SignA ==
    /\ spc = "input"
    /\ signA' = generateSignature(paramsA)
    /\ spc' = "signedA"
    /\ UNCHANGED <<paramsA, paramsB, signB>>
    /\ UNCHANGED reqVars

SignB ==
    /\ spc = "signedA"
    /\ signB' = generateSignature(paramsB)
    /\ spc' = "signed"
    /\ UNCHANGED <<paramsA, paramsB, signA>>
    /\ UNCHANGED reqVars

NextSign == SignA \/ SignB

SpecSign == InitSign /\ [][NextSign]_vars

-----------------------------------------------------------------------------
(* Properties *)

PairsOf(o) == { o[i] : i \in 1..Len(o) }

PairsButSign(o) == { f \in PairsOf(o) : f.k # "sign" }

\* the documented canonical string: the keys other than sign in ascending
\* order, key=value joined by '&', then '&' and the secret
CanonicalKeys(o) ==
    SelectSeq(KeyOrder, LAMBDA k : k # "sign" /\ \E f \in PairsOf(o) : f.k = k)

CanonicalString(o) ==
    LET ks == CanonicalKeys(o)
    IN  Join([i \in 1..Len(ks) |-> <<ks[i], "=">> \o (CHOOSE f \in PairsOf(o) : f.k = ks[i]).v.s], "&")
        \o <<"&", "all-egg-shell-y7ZatUDk">>

DocumentedDigest(o) == <<"md5(">> \o CanonicalString(o) \o <<")">>

Resolved == pc \in {"dispatch", "done"} /\ realToken # <<>>

PlaceholderObjectBody(r) ==
    /\ r.method = "POST"
    /\ Includes(r.headers.ContentType, "application/json")
    /\ r.body.kind = "obj"
    /\ r.body.ph

ForwardedBodies == { calls[i].body : i \in { j \in 1..Len(calls) : calls[j].to = "GAME_API" } }

\* C1: a POST with JSON content type whose body is a JSON object containing
\* the placeholder, with a real token T resolved, is forwarded with token = T,
\* sign = the documented digest of the updated fields, and every other field
\* as it was; the game-data API receives exactly that body.
C1_BodyTokenAndSignRewritten ==
    (Resolved /\ PlaceholderObjectBody(request)) =>
        LET out == modifiedRequest.body
            old == request.body.fields
            new == out.fields
        IN  /\ out.kind = "obj"
            /\ DistinctKeys(new)
            /\ ObjHas(new, "token") /\ ObjGet(new, "token") = JText(realToken)
            /\ ObjHas(new, "sign") /\ ObjGet(new, "sign") = JText(DocumentedDigest(new))
            /\ { f \in PairsOf(new) : f.k \notin {"token", "sign"} }
                 = { f \in PairsOf(old) : f.k \notin {"token", "sign"} }
            /\ \A b \in ForwardedBodies : b = out

C1_Witness ==
    /\ pc = "done"
    /\ Resolved
    /\ PlaceholderObjectBody(request)
    /\ request.body.fields = <<Field("token", JStr(PLACEHOLDER)), Field("app_id", JStr("585690"))>>
    /\ ForwardedBodies # {}
    /\ response.status = 200

SameButSign(a, b) == PairsButSign(a) = PairsButSign(b)

\* C2: generateSignature is order-independent: two parameter maps with the
\* same key/value pairs apart from sign, in any insertion order and with any
\* sign field, get the same digest.
C2_SignatureOrderIndependent ==
    (spc = "signed" /\ SameButSign(paramsA, paramsB)) => signA = signB

C2_Witness ==
    /\ spc = "signed"
    /\ SameButSign(paramsA, paramsB)
    /\ Len(paramsA) = 3 /\ Len(paramsB) = 2
    /\ ObjHas(paramsA, "sign") /\ ~ObjHas(paramsB, "sign")
    /\ paramsB[1].k = "token" /\ paramsB[2].k = "app_id"
    /\ paramsA[1].k = "app_id"
    /\ signA = signB

NoPlaceholder(r) ==
    /\ \A i \in 1..Len(r.headers.Authorization) : r.headers.Authorization[i] # "fake-token"
    /\ r.headers.token # <<"fake-token">>
    /\ ~(/\ r.method = "POST"
         /\ \E i \in 1..Len(r.headers.ContentType) : r.headers.ContentType[i] = "application/json"
         /\ r.body.ph)

\* C3: a request without the placeholder (not in Authorization, token header
\* not exactly the placeholder, not a JSON POST whose body contains it) is
\* handed to the dispatcher with the same method, headers and body, and the
\* token resolver is not consulted.
C3_NoPlaceholderUnchanged ==
    (pc \in {"dispatch", "done"} /\ request.method # "OPTIONS" /\ NoPlaceholder(request)) =>
        /\ modifiedRequest = request
        /\ realToken = <<>>
        /\ \A i \in 1..Len(calls) : calls[i].to \notin {"TOKEN_STORE", "TOKEN_REFRESHER"}

C3_Witness ==
    /\ pc = "done"
    /\ dispatched
    /\ NoPlaceholder(request)
    /\ request.method = "POST"
    /\ request.headers.token = <<"fake-token", "-x">>
    /\ request.headers.ContentType = <<"text/plain">>
    /\ request.body.kind = "raw"
    /\ \E i \in 1..Len(calls) : calls[i].to = "GAME_API" /\ calls[i].body = request.body

Collaborators == {"GAME_API", "NEWS", "GITHUB", "FREE_GAMES_KV"}

CallsTo(S) == { i \in 1..Len(calls) : calls[i].to \in S }

\* C4: when the placeholder was detected and no token could be resolved in
\* any way, the handler does not end in an error response because of the
\* resolution: the original request is dispatched, headers and body unmodified.
C4_ResolutionFailureNonFatal ==
    (pc = "done" /\ shouldReplaceToken /\ realToken = <<>>) =>
        /\ dispatched
        /\ modifiedRequest = request

\* C5: a body that contains the placeholder but is not a JSON object, with a
\* real token resolved: the body is left as it was, the headers are still
\* replaced, and the request is dispatched.
C5_UnparsableBodyDegrades ==
    (/\ pc = "done"
     /\ realToken # <<>>
     /\ request.method = "POST"
     /\ Includes(request.headers.ContentType, "application/json")
     /\ request.body.ph
     /\ request.body.kind \in {"raw", "str"}) =>
        /\ dispatched
        /\ modifiedRequest.body = request.body
        /\ ~Includes(modifiedRequest.headers.Authorization, "fake-token")
        /\ modifiedRequest.headers.token # <<"fake-token">>

\* C6: with a real token resolved and the placeholder in the headers only
\* (the body lacks it, or was not inspected), the rewritten request carries
\* the original body, for every method and content type.
C6_HeaderOnlyRewriteKeepsBody ==
    (/\ Resolved
     /\ ~(/\ request.method = "POST"
          /\ Includes(request.headers.ContentType, "application/json")
          /\ request.body.ph)) =>
        modifiedRequest.body = request.body

AllowedMethods(path) ==
    CASE path = "/card/getGameDetail" -> {"GET", "POST"}
      [] path = "/card/getIndexList" -> {"GET", "POST"}
      [] path = "/game/getSteamHost" -> {"GET"}
      [] OTHER -> {"POST"}

\* C7: a known path asked with a method its entry does not allow (OPTIONS
\* aside) is answered 405 and no upstream collaborator is contacted.
C7_MethodNotAllowed ==
    (/\ pc = "done"
     /\ dispatched
     /\ request.path \in KnownPaths
     /\ request.method # "OPTIONS"
     /\ request.method \notin AllowedMethods(request.path)) =>
        /\ response.status = 405
        /\ CallsTo(Collaborators) = {}

\* C8: a request whose path is in no dispatch entry is proxied by exactly one
\* GET to the static origin at base URL + path, and the client gets the
\* upstream's status and body.
C8_UnknownPathProxied ==
    (pc = "done" /\ request.method # "OPTIONS" /\ request.path \notin KnownPaths) =>
        /\ Cardinality(CallsTo(Collaborators)) = 1
        /\ \A i \in CallsTo(Collaborators) :
             /\ calls[i].to = "GITHUB"
             /\ calls[i].method = "GET"
             /\ calls[i].url = <<"https://raw.githubusercontent.com/gamehublite/gamehub_api/main", request.path>>
        /\ upstream.kind # "fault" =>
             /\ response.status = upstream.status
             /\ response.body = upstream.body

HeadersButContentType(h) == <<h.Authorization, h.token>>

\* C9: a GET to /card/getGameDetail with an app_id query parameter is not
\* rejected: exactly one upstream call, a POST whose JSON body holds app_id
\* and every other query parameter as strings, with the headers of the
\* (possibly rewritten) request and Content-Type application/json.
C9_GetDetailShim ==
    (/\ pc = "done"
     /\ request.method = "GET"
     /\ request.path = "/card/getGameDetail"
     /\ \E i \in 1..Len(request.query) :
          request.query[i].k = "app_id" /\ request.query[i].v # <<>>) =>
        /\ response.status \notin {400, 405}
        /\ Cardinality(CallsTo(Collaborators)) = 1
        /\ \A i \in CallsTo(Collaborators) :
             /\ calls[i].to = "GAME_API"
             /\ calls[i].method = "POST"
             /\ calls[i].body.kind = "obj"
             /\ { f.k : f \in PairsOf(calls[i].body.fields) } = { f.k : f \in PairsOf(request.query) }
             /\ \A f \in PairsOf(calls[i].body.fields) :
                  f.v.t = "str" /\ \E g \in PairsOf(request.query) : g.k = f.k /\ g.v = f.v.s
             /\ HeadersButContentType(calls[i].headers) = HeadersButContentType(modifiedRequest.headers)
             /\ calls[i].headers.ContentType = <<"application/json">>

SearchAnswered ==
    /\ pc = "done"
    /\ request.path = "/search/getGameList"
    /\ response.kind = "payload"
    /\ upstream.kind = "json"
    /\ upstream.body.hasData /\ upstream.body.hasList

SteamItems(list) ==
    { g \in PairsOf(list) : g.steam_appid # <<>> /\ g.steam_appid # <<"0">> }

-----------------------------------------------------------------------------
(* Pagination *)

\* the request was answered by this handler with a payload
Answered(handler) ==
    /\ pc = "done"
    /\ dispatched
    /\ Route(modifiedRequest.path, modifiedRequest.method) = handler
    /\ response.kind = "payload"

\* the number the body supplies under k, d when it is absent or zero
Supplied(k, d) ==
    LET o == BodyObject(modifiedRequest.body)
    IN  IF ObjHas(o, k) /\ ObjGet(o, k).n # 0 THEN ObjGet(o, k).n ELSE d

\* the items of src at the 0-based positions [(p-1)*s, p*s), in order
Window(src, p, s) ==
    LET idx == { i \in 1..Len(src) : (p - 1) * s <= i - 1 /\ i - 1 < p * s }
    IN  [j \in 1..Cardinality(idx) |->
            src[CHOOSE i \in idx : Cardinality({k \in idx : k < i}) = j - 1]]

MoreSource == FindTopic(upstream.body, Param(BodyObject(modifiedRequest.body), "id")).card_list

\* the manifest answered had a list (data.components or data.list) to page
ComponentsPaged ==
    /\ Answered("getComponentList")
    /\ upstream.body.hasData
    /\ upstream.body.name \in {"components", "list"}

MorePageIs(p, s) ==
    /\ response.status = 200
    /\ response.body.card_list = Window(MoreSource, p, s)
    /\ response.body.page.n = p
    /\ response.body.page_size.n = s

ComponentPageIs(p, s) ==
    /\ response.status = 200
    /\ response.body.name = "list"
    /\ response.body.items = Window(upstream.body.items, p, s)
    /\ response.body.page.n = p
    /\ response.body.pageSize.n = s

-----------------------------------------------------------------------------
(* /simulator/executeScript: the device description sent upstream *)

\* the bodies the game-data API received on a path
BodiesSentTo(path) ==
    { calls[i].body : i \in { j \in 1..Len(calls) : calls[j].to = "GAME_API"
                                                    /\ calls[j].url = <<GAME_API, path>> } }

\* C12: the body /simulator/executeScript sends upstream keeps gpu_vendor
\* and has gpu_device_name replaced by the generic value and
\* gpu_system_driver_version by 0, so that bodies differing only in those
\* two fields are sent as the same upstream body.
C12_FingerprintSanitized ==
    \A b \in BodiesSentTo("/simulator/executeScript") :
        b.kind = "obj" /\ ObjHas(b.fields, "gpu_device_name") =>
            /\ ObjGet(b.fields, "gpu_vendor") = ObjGet(request.body.fields, "gpu_vendor")
            /\ ObjGet(b.fields, "gpu_device_name") = JStr("Generic Device")
            /\ ObjGet(b.fields, "gpu_system_driver_version") = JNum(0)

-----------------------------------------------------------------------------
(* Required parameters *)

\* the inbound request lacks the parameter its handler requires
MissingParameter(r) ==
    \/ r.path = "/card/getGameDetail" /\ r.method = "GET" /\ SearchParam(r.query, "app_id") = <<>>
    \/ /\ r.method = "POST"
       /\ r.body.kind = "obj"
       /\ \/ r.path \in {"/card/getNewsGuideDetail", "/card/more"} /\ ~ObjHas(r.body.fields, "id")
          \/ /\ r.path = "/simulator/v2/getComponentList"
             /\ ~(ObjHas(r.body.fields, "type") /\ ObjGet(r.body.fields, "type").n \in 1..7)

\* C13: a request missing its handler's required parameter (app_id for GET
\* /card/getGameDetail, id for /card/getNewsGuideDetail and /card/more, a
\* type in 1..7 for /simulator/v2/getComponentList) is answered with status
\* 400 and an error envelope, and no upstream collaborator is contacted.
C13_MissingParameterRejected ==
    pc = "done" /\ MissingParameter(request) =>
        /\ response.status = 400
        /\ response.kind = "envelope"
        /\ response.body.code = 400
        /\ CallsTo(Collaborators) = {}

-----------------------------------------------------------------------------
(* Upstream answers that are not JSON *)

Handler == Route(modifiedRequest.path, modifiedRequest.method)

GameApiHandlers == {"getGameDetail", "getGameList", "executeScript", "check_user_timer"}

ParsingHandlers == GameApiHandlers \cup {"getNewsList", "getNewsGuideDetail", "getComponentList"}

\* the handler's collaborator answered with a body that is not JSON
MalformedUpstream ==
    /\ pc = "done"
    /\ dispatched
    /\ Handler \in ParsingHandlers
    /\ upstream.kind = "raw"

\* the response message quotes the upstream body
HasSnippet ==
    /\ upstream.body # <<>>
    /\ \E i \in 1..Len(response.body.msg) :
          SubSeq(response.body.msg, i, i + Len(upstream.body) - 1) = upstream.body

-----------------------------------------------------------------------------
(* Upstream failures *)

ManifestHostHandlers == {"getComponentList", "getBaseInfo", "getDnsIpPool", "getSteamHost"}

\* the handler's collaborator was unavailable or answered a non-success status
UpstreamFailed ==
    /\ pc = "done"
    /\ dispatched
    /\ Handler \in GameApiHandlers \cup ManifestHostHandlers \cup {"getNewsList", "getNewsGuideDetail"}
    /\ upstream.kind # "none"
    /\ (upstream.kind = "fault" \/ ~upstream.ok)

\* an HTTP status with an error envelope of the given code
Outcome(status, code) ==
    /\ response.status = status
    /\ response.kind \in {"envelope", "caught"}
    /\ response.body.code = code

-----------------------------------------------------------------------------
(* Faults *)

\* a fault was raised while the request was handled
Faulted == fault # <<>>

\* C16 (as stated): a fault raised in any stage after the preflight check
\* ends the handling with one response of status 500 whose code-500
\* envelope carries the fault message; no request ends without a response.
C16_FaultGives500WithMessage ==
    /\ pc = "done" => response # NoResponse
    /\ Faulted =>
          /\ pc = "done"
          /\ Outcome(500, 500)
          /\ response.body.msg = <<"Error: ">> \o fault

\* C16 (amended): a fault raised in any stage after the preflight check ends
\* the handling with one response of status 500 and a code-500 envelope, and
\* no request ends without a response; the envelope carries the fault
\* message when the fault reaches the outer catch, the fixed message
\* 'Internal server error' when /card/getIndexList or /card/more catch it
\* themselves, and a snippet of the upstream body when /card/getGameDetail
\* catches the parse fault of its upstream answer.
C16_FaultGives500 ==
    /\ pc = "done" => response # NoResponse
    /\ Faulted =>
          /\ pc = "done"
          /\ Outcome(500, 500)
          /\ IF response.kind = "caught"
             THEN response.body.msg = <<"Error: ">> \o fault
             ELSE /\ dispatched
                  /\ Handler \in {"getIndexList", "more", "getGameDetail"}
                  /\ Handler \in {"getIndexList", "more"} => response = InternalError
                  /\ Handler = "getGameDetail" => HasSnippet

\* a fault raised by an upstream call and answered by the outer catch
C16_Witness ==
    /\ pc = "done"
    /\ dispatched
    /\ fault = <<"fetch failed">>
    /\ response.kind = "caught"
    /\ Outcome(500, 500)

-----------------------------------------------------------------------------
(* /card/getGameDetail: field stripping *)

\* C17: a /card/getGameDetail response built from a parsable upstream
\* payload has neither recommend_game nor card_line_data inside data; code,
\* msg and every other field of data are those of the upstream payload.
C17_DetailFieldsStripped ==
    Answered("getGameDetail") =>
        /\ response.body.code = upstream.body.code
        /\ response.body.msg = upstream.body.msg
        /\ response.body.hasData = upstream.body.hasData
        /\ ~ObjHas(response.body.data, "recommend_game")
        /\ ~ObjHas(response.body.data, "card_line_data")
        /\ PairsOf(response.body.data)
              = { f \in PairsOf(upstream.body.data) : f.k \notin {"recommend_game", "card_line_data"} }
        /\ DistinctKeys(response.body.data)

C17_Witness ==
    /\ Answered("getGameDetail")
    /\ ObjHas(upstream.body.data, "recommend_game")
    /\ ObjHas(upstream.body.data, "card_line_data")
    /\ response.body.data = <<Field("name", JStr("Portal"))>>

-----------------------------------------------------------------------------
(* Body reads *)

\* C18: within the handling of one request the body is read at most once:
\* the text() and json() reads of the inbound or rewritten request, reads of
\* a clone included, never number more than one.
C18_BodyReadAtMostOnce == bodyReads <= 1

-----------------------------------------------------------------------------
(* Token resolution *)

StoreReads == CallsTo({"TOKEN_STORE"})

IssuerCalls == CallsTo({"TOKEN_REFRESHER"})

\* C19: the token store is read only when the placeholder was detected, and
\* at most once; the token issuer is called at most once, only after the
\* store read returned nothing, and never when the store returned a record;
\* no resolution step is repeated.
C19_ResolutionOrdering ==
    /\ Cardinality(StoreReads) <= 1
    /\ Cardinality(IssuerCalls) <= 1
    /\ StoreReads # {} => shouldReplaceToken
    /\ IssuerCalls # {} =>
          /\ tokenDataStr = "absent"
          /\ \A i \in IssuerCalls : \E k \in StoreReads : k < i
    /\ tokenDataStr \in {"token", "notoken"} => IssuerCalls = {}
    /\ tokenDataStr = "unread" <=> StoreReads = {}

\* the issuer supplied the token after the store had none
C19_Witness ==
    /\ pc = "done"
    /\ dispatched
    /\ tokenDataStr = "absent"
    /\ StoreReads = {1}
    /\ IssuerCalls = {2}
    /\ realToken = REAL_TOKEN

-----------------------------------------------------------------------------
(* The placeholder after the rewrite *)

\* C20: once a token without the placeholder was resolved and the request
\* rewritten, the request handed to the dispatcher has no 'fake-token' left
\* in its Authorization header, its token header or, for a POST with JSON
\* content, its body, however many placeholders the inbound request held.
C20_NoPlaceholderLeft ==
    (Resolved /\ ~Includes(realToken, PLACEHOLDER)) =>
        /\ ~Includes(modifiedRequest.headers.Authorization, PLACEHOLDER)
        /\ ~Includes(modifiedRequest.headers.token, PLACEHOLDER)
        /\ IsJsonPost(modifiedRequest) => ~TextIncludes(modifiedRequest.body)

====
